---- MODULE Spec2Model ----
(***************************************************************************)
(* Auto-Claude: the MCP tool surface (auto-claude/mcp/tools.py) and the    *)
(* per-phase model / thinking configuration (auto-claude/phase_config.py). *)
(*                                                                         *)
(* Conventions                                                             *)
(*   - A path component "001-feature" is the token sequence                *)
(*     <<"001", "feature">> (the name split at "-"), so that               *)
(*     name.startswith(spec_id + "-") is decided on the tokens.            *)
(*   - Python's Optional[T] is a sequence: <<>> is None, <<v>> is v.       *)
(*   - A returned dict is a record; a key the dict does not carry is a     *)
(*     field the record does not have.                                     *)
(***************************************************************************)
EXTENDS Integers, Sequences, FiniteSets, TLC

VARIABLES
    specDirs,       \* directories under <project>/.auto-claude/specs
    files,          \* per spec directory: the artifacts the tools read
    worktreesDir,   \* whether <project>/.auto-claude-worktrees exists
    worktrees,      \* directories under <project>/.auto-claude-worktrees
    wtBranch,       \* per worktree: what `git branch --show-current` prints
    branches,       \* the auto-claude/* branches of the repository
    jobs,           \* detached background processes, per (kind, spec)
    environ,        \* os.environ, the three model variables
    metadata,       \* the spec directory's task_metadata.json, loaded
    op,             \* the last call and its arguments
    result,         \* what the last call returned
    gitCalls        \* version-control subprocesses the last call started

fsVars == <<specDirs, files, worktreesDir, worktrees, wtBranch, branches>>
cfgVars == <<environ, metadata>>
vars == <<specDirs, files, worktreesDir, worktrees, wtBranch, branches, jobs,
          environ, metadata, op, result, gitCalls>>

----------------------------------------------------------------------------
(* Bounds of the model.                                                    *)

MaxPhases == 2
MaxSubtasks == 2
MaxJobs == 2
MaxMapEntries == 1

----------------------------------------------------------------------------
(* Optional values and dict.get.                                           *)

None == <<>>
Some(v) == <<v>>
Get(opt, default) == IF opt = None THEN default ELSE opt[1]

RECURSIVE SeqsUpTo(_, _)
SeqsUpTo(S, n) ==
    IF n = 0 THEN {<<>>}
    ELSE LET shorter == SeqsUpTo(S, n - 1)
         IN  shorter \cup {Append(s, x) : s \in {t \in shorter : Len(t) = n - 1}, x \in S}

Perms(S) ==
    {p \in [1..Cardinality(S) -> S] : \A i, j \in 1..Cardinality(S) : p[i] = p[j] => i = j}

----------------------------------------------------------------------------
(* Spec directories, spec ids, worktrees and branches.                     *)

SpecNames == {<<"001">>, <<"001", "feature">>}
SpecIds == {<<"001">>, <<"001", "feature">>, <<"002">>}

\* spec_dir.name.startswith(f"{spec_id}-")
StartsWithDash(name, spec_id) ==
    /\ Len(name) > Len(spec_id)
    /\ \A i \in 1..Len(spec_id) : name[i] = spec_id[i]

NameMatches(name, spec_id) == name = spec_id \/ StartsWithDash(name, spec_id)

\* _find_spec returns the first match in iterdir() order, which is arbitrary:
\* every matching directory is a possible return value; {} is None.
FindSpec(spec_id) == {d \in specDirs : NameMatches(d, spec_id)}

\* f"auto-claude/{spec_dir.name}"
BranchOf(name) == <<"auto-claude">> \o name

Detached == <<>>

\* what stands in wtBranch for a directory in which `git branch
\* --show-current` exits non-zero or cannot be run: it is not a checkout
NoRepo == <<"fatal">>

\* the order of str on the parts of a name, and of Path on sibling directories
TokenOrder == <<"001", "002", "feature">>
TokenRank(token) == CHOOSE i \in 1..Len(TokenOrder) : TokenOrder[i] = token

RECURSIVE NameLess(_, _)
NameLess(a, b) ==
    IF a = <<>> THEN b # <<>>
    ELSE IF b = <<>> THEN FALSE
    ELSE IF Head(a) # Head(b) THEN TokenRank(Head(a)) < TokenRank(Head(b))
    ELSE NameLess(Tail(a), Tail(b))

\* mutant of Sorted: the directory entries taken in the order iterdir() gives
Unsorted(entries) == entries

RECURSIVE Insert(_, _)
Insert(sorted, name) ==
    IF sorted = <<>> THEN <<name>>
    ELSE IF NameLess(name, Head(sorted)) THEN <<name>> \o sorted
    ELSE <<Head(sorted)>> \o Insert(Tail(sorted), name)

RECURSIVE SortedFrom(_)
SortedFrom(entries) ==
    IF entries = <<>> THEN <<>> ELSE Insert(SortedFrom(Tail(entries)), Head(entries))

\* sorted(dir.iterdir())
Sorted(entries) == SortedFrom(entries)

NotFoundMsg(spec_id) == <<"Spec '", spec_id, "' not found">>

----------------------------------------------------------------------------
(* implementation_plan.json: phases of subtasks.  A subtask is its status  *)
(* field (None when the key is missing); "blocked" stands for any value    *)
(* outside the four the code tests for.  A missing "phases" or "subtasks"  *)
(* key reads as the empty list, which is how the empty sequence is read.   *)

StatusValues == {"pending", "in_progress", "complete", "stuck", "blocked"}
Subtasks == {[status |-> s] : s \in {None} \cup {Some(v) : v \in StatusValues}}

RECURSIVE PlansUpTo(_, _)
PlansUpTo(p, t) ==
    IF p = 0 THEN {<<>>}
    ELSE {<<>>} \cup
         UNION {{<<[subtasks |-> ph]>> \o rest : rest \in PlansUpTo(p - 1, t - Len(ph))} :
                    ph \in SeqsUpTo(Subtasks, t)}

\* plans of at most MaxPhases phases and MaxSubtasks subtasks in all
Plans == PlansUpTo(MaxPhases, MaxSubtasks)

\* for phase in plan.get("phases", []): for subtask in phase.get("subtasks", [])
RECURSIVE AllSubtasks(_)
AllSubtasks(plan) ==
    IF plan = <<>> THEN <<>> ELSE Head(plan).subtasks \o AllSubtasks(Tail(plan))

\* the file is missing, is not JSON (a partial write included), holds a JSON
\* object, or holds JSON whose top-level value is an array, a string, a
\* number or a boolean
PlanFiles ==
    {[kind |-> "absent"], [kind |-> "garbage"], [kind |-> "nonobject"]}
        \cup {[kind |-> "json", phases |-> p] : p \in Plans}

\* _load_implementation_plan: a missing or unparseable file is None, anything
\* json.loads accepts is returned as it is
LoadImplementationPlan(f) ==
    IF f.plan.kind = "json" THEN Some([phases |-> f.plan.phases])
    ELSE IF f.plan.kind = "nonobject" THEN Some([nonobject |-> TRUE])
    ELSE None

\* whether a loaded value has the dict method .get
IsDict(value) == "phases" \in DOMAIN value

\* plan.get on a value that is not a dict raises AttributeError, which no
\* tool catches: the call ends with the exception instead of a result
PlanRaises(f) ==
    LoadImplementationPlan(f) # None /\ ~IsDict(LoadImplementationPlan(f)[1])

Raised == [raised |-> "AttributeError"]

ZeroCounts == [completed |-> 0, in_progress |-> 0, pending |-> 0, stuck |-> 0, total |-> 0]

\* mutant of CountSubtask: a status outside the four known ones is counted in
\* total only
CountSubtaskKnownOnly(counts, subtask) ==
    LET status == Get(subtask.status, "pending")
        c == [counts EXCEPT !.total = @ + 1]
    IN  IF status = "complete" THEN [c EXCEPT !.completed = @ + 1]
        ELSE IF status = "in_progress" THEN [c EXCEPT !.in_progress = @ + 1]
        ELSE IF status = "stuck" THEN [c EXCEPT !.stuck = @ + 1]
        ELSE IF status = "pending" THEN [c EXCEPT !.pending = @ + 1]
        ELSE c

\* the body of the inner loop of _get_subtask_counts
CountSubtask(counts, subtask) ==
    LET status == Get(subtask.status, "pending")
        c == [counts EXCEPT !.total = @ + 1]
    IN  IF status = "complete" THEN [c EXCEPT !.completed = @ + 1]
        ELSE IF status = "in_progress" THEN [c EXCEPT !.in_progress = @ + 1]
        ELSE IF status = "stuck" THEN [c EXCEPT !.stuck = @ + 1]
        ELSE [c EXCEPT !.pending = @ + 1]

RECURSIVE CountAll(_, _)
CountAll(counts, subtasks) ==
    IF subtasks = <<>> THEN counts
    ELSE CountAll(CountSubtask(counts, Head(subtasks)), Tail(subtasks))

GetSubtaskCounts(plan) == CountAll(ZeroCounts, AllSubtasks(plan))

\* mutants of StatusFromCounts: the stuck test moved before the in_progress
\* test; the QA report not consulted; the empty-plan test dropped; the stuck
\* test dropped
StatusStuckFirst(counts, qa_exists) ==
    IF counts.total = 0 THEN "pending"
    ELSE IF counts.completed = counts.total
         THEN (IF qa_exists THEN "qa_complete" ELSE "complete")
    ELSE IF counts.stuck > 0 THEN "stuck"
    ELSE IF counts.in_progress > 0 THEN "in_progress"
    ELSE "pending"

StatusIgnoringQa(counts, qa_exists) ==
    IF counts.total = 0 THEN "pending"
    ELSE IF counts.completed = counts.total THEN "complete"
    ELSE IF counts.in_progress > 0 THEN "in_progress"
    ELSE IF counts.stuck > 0 THEN "stuck"
    ELSE "pending"

StatusNoEmptyTest(counts, qa_exists) ==
    IF counts.completed = counts.total
    THEN (IF qa_exists THEN "qa_complete" ELSE "complete")
    ELSE IF counts.in_progress > 0 THEN "in_progress"
    ELSE IF counts.stuck > 0 THEN "stuck"
    ELSE "pending"

StatusNoStuckTest(counts, qa_exists) ==
    IF counts.total = 0 THEN "pending"
    ELSE IF counts.completed = counts.total
         THEN (IF qa_exists THEN "qa_complete" ELSE "complete")
    ELSE IF counts.in_progress > 0 THEN "in_progress"
    ELSE "pending"

\* _get_spec_overall_status after the plan is loaded and counted
StatusFromCounts(counts, qa_exists) ==
    IF counts.total = 0 THEN "pending"
    ELSE IF counts.completed = counts.total
         THEN (IF qa_exists THEN "qa_complete" ELSE "complete")
    ELSE IF counts.in_progress > 0 THEN "in_progress"
    ELSE IF counts.stuck > 0 THEN "stuck"
    ELSE "pending"

GetSpecOverallStatus(f, plan) ==
    IF plan = None THEN "pending"
    ELSE StatusFromCounts(GetSubtaskCounts(plan[1].phases), f.qa_report # None)

----------------------------------------------------------------------------
(* The other artifacts of a spec directory.                                *)

\* review_state.json: absent, unparseable, or an object whose keys may be missing
ReviewFiles ==
    {[kind |-> "absent"], [kind |-> "garbage"],
     [kind |-> "json", approved |-> None, approved_by |-> None],
     [kind |-> "json", approved |-> Some(TRUE), approved_by |-> Some("alice")]}

\* qa_report.md: None when absent, else its text as a sequence of words
QaReports ==
    {None, Some(<<"QA", "failed">>), Some(<<"QA", "passed">>), Some(<<"CHECKMARK", "done">>)}

\* qa_state.json: absent, unparseable, or an object whose keys may be missing
QaStates ==
    {[kind |-> "absent"], [kind |-> "garbage"],
     [kind |-> "json", passed |-> None, issues |-> None, last_run |-> None],
     [kind |-> "json", passed |-> Some(TRUE), issues |-> Some(<<>>), last_run |-> Some("t1")],
     [kind |-> "json", passed |-> Some(FALSE), issues |-> Some(<<"bug">>), last_run |-> Some("t2")]}

FreshDir ==
    [plan |-> [kind |-> "absent"], review_state |-> [kind |-> "absent"],
     qa_report |-> None, qa_state |-> [kind |-> "absent"]]

\* content.upper(), per word
Upper(word) ==
    CASE word = "passed" -> "PASSED"
      [] word = "failed" -> "FAILED"
      [] OTHER -> word

\* "✅" in content or "PASSED" in content.upper()
HasPassMarker(content) ==
    \/ \E i \in 1..Len(content) : content[i] = "CHECKMARK"
    \/ \E i \in 1..Len(content) : Upper(content[i]) = "PASSED"

----------------------------------------------------------------------------
(* Query tools.                                                            *)

NotFound(spec_id) == [error |-> NotFoundMsg(spec_id), found |-> FALSE]

\* phase_completed and phase_status of get_spec_status
PhaseCompleted(phase) ==
    Cardinality({k \in 1..Len(phase.subtasks) : phase.subtasks[k].status = Some("complete")})

PhaseStatus(phase) ==
    IF PhaseCompleted(phase) = Len(phase.subtasks) THEN "complete"
    ELSE IF PhaseCompleted(phase) > 0 THEN "in_progress"
    ELSE "pending"

InProgressAt(phase) ==
    {k \in 1..Len(phase.subtasks) : phase.subtasks[k].status = Some("in_progress")}

\* the loop assigns current_subtask in every phase that has an in_progress
\* subtask and breaks out of the inner loop only: the last such phase wins.
\* A subtask is named by its place (its id, description and attempts go along).
CurrentSubtask(plan) ==
    LET ps == {p \in 1..Len(plan) : InProgressAt(plan[p]) # {}}
    IN  IF ps = {} THEN None
        ELSE LET p == CHOOSE q \in ps : \A r \in ps : r <= q
                 k == CHOOSE j \in InProgressAt(plan[p]) : \A i \in InProgressAt(plan[p]) : j <= i
             IN  Some([phase |-> p, subtask |-> k])

SpecStatusResult(spec_dir) ==
    LET f == files[spec_dir]
        plan == LoadImplementationPlan(f)
        review == f.review_state
        parsed == review.kind = "json"
    IN  [id |-> spec_dir,
         found |-> TRUE,
         status |-> GetSpecOverallStatus(f, plan),
         approved |-> IF parsed THEN Get(review.approved, FALSE) ELSE FALSE,
         approved_by |-> IF parsed THEN review.approved_by ELSE None,
         phases |-> IF plan = None THEN <<>>
                    ELSE [p \in 1..Len(plan[1].phases) |->
                            [status |-> PhaseStatus(plan[1].phases[p]),
                             subtasks |-> Len(plan[1].phases[p].subtasks),
                             completed |-> PhaseCompleted(plan[1].phases[p])]],
         subtasks |-> IF plan = None THEN ZeroCounts ELSE GetSubtaskCounts(plan[1].phases),
         current_subtask |-> IF plan = None THEN None ELSE CurrentSubtask(plan[1].phases),
         worktree_path |-> IF spec_dir \in worktrees THEN Some(spec_dir) ELSE None]

GetSpecStatus(spec_id) ==
    /\ op' = [name |-> "get_spec_status", spec_id |-> spec_id]
    /\ gitCalls' = 0
    /\ IF FindSpec(spec_id) = {}
       THEN result' = NotFound(spec_id)
       ELSE \E spec_dir \in FindSpec(spec_id) :
              result' = IF PlanRaises(files[spec_dir]) THEN Raised
                        ELSE SpecStatusResult(spec_dir)
    /\ UNCHANGED <<fsVars, jobs, cfgVars>>

\* mutant of QaStatusResult: qa_report.md consulted first, qa_state.json only
\* without it
QaStatusReportFirst(spec_dir) ==
    LET f == files[spec_dir]
        base == [spec_id |-> spec_dir, found |-> TRUE, qa_run |-> FALSE,
                 passed |-> FALSE, issues |-> <<>>, last_run |-> None]
    IN  IF f.qa_report # None
        THEN [base EXCEPT !.qa_run = TRUE,
                          !.passed = HasPassMarker(f.qa_report[1]),
                          !.last_run = Some("mtime")]
        ELSE IF f.qa_state.kind = "json"
             THEN [base EXCEPT !.qa_run = TRUE,
                               !.passed = Get(f.qa_state.passed, FALSE),
                               !.issues = Get(f.qa_state.issues, <<>>),
                               !.last_run = f.qa_state.last_run]
             ELSE base

QaStatusResult(spec_dir) ==
    LET f == files[spec_dir]
        base == [spec_id |-> spec_dir, found |-> TRUE, qa_run |-> FALSE,
                 passed |-> FALSE, issues |-> <<>>, last_run |-> None]
    IN  IF f.qa_state.kind # "absent"
        THEN IF f.qa_state.kind = "json"
             THEN [base EXCEPT !.qa_run = TRUE,
                               !.passed = Get(f.qa_state.passed, FALSE),
                               !.issues = Get(f.qa_state.issues, <<>>),
                               !.last_run = f.qa_state.last_run]
             ELSE base
        ELSE IF f.qa_report # None
             THEN [base EXCEPT !.qa_run = TRUE,
                               !.passed = HasPassMarker(f.qa_report[1]),
                               !.last_run = Some("mtime")]
             ELSE base

GetQaStatus(spec_id) ==
    /\ op' = [name |-> "get_qa_status", spec_id |-> spec_id]
    /\ gitCalls' = 0
    /\ IF FindSpec(spec_id) = {}
       THEN result' = NotFound(spec_id)
       ELSE \E spec_dir \in FindSpec(spec_id) : result' = QaStatusResult(spec_dir)
    /\ UNCHANGED <<fsVars, jobs, cfgVars>>

\* the entry list_specs appends for one spec directory
SpecInfo(spec_dir) ==
    LET f == files[spec_dir]
        plan == LoadImplementationPlan(f)
        counts == IF plan = None THEN [completed |-> 0, total |-> 0]
                  ELSE GetSubtaskCounts(plan[1].phases)
    IN  [id |-> spec_dir,
         status |-> GetSpecOverallStatus(f, plan),
         subtasks |-> [completed |-> counts.completed, total |-> counts.total],
         worktree |-> spec_dir \in worktrees]

\* how many entries of a list_specs result are counted under a summary key
SummaryCount(specs, statuses) ==
    Cardinality({i \in 1..Len(specs) : specs[i].status \in statuses})

\* list_specs: one entry per spec directory, in sorted order, and the summary
ListSpecs ==
    /\ op' = [name |-> "list_specs"]
    /\ gitCalls' = 0
    /\ \E iterdir \in Perms(specDirs) :
          LET dirs == Sorted(iterdir)
              specs == [i \in 1..Len(dirs) |-> SpecInfo(dirs[i])]
          IN  result' =
                IF \E d \in specDirs : PlanRaises(files[d]) THEN Raised
                ELSE [specs |-> specs,
                      total |-> Len(specs),
                      pending |-> SummaryCount(specs, {"pending", "stuck"}),
                      in_progress |-> SummaryCount(specs, {"in_progress"}),
                      complete |-> SummaryCount(specs, {"complete", "qa_complete"})]
    /\ UNCHANGED <<fsVars, jobs, cfgVars>>

\* list_worktrees: one entry per worktree directory, in sorted order, with
\* the branch git reports there (None when git does not report one)
ListWorktrees ==
    /\ op' = [name |-> "list_worktrees"]
    /\ gitCalls' = Cardinality(worktrees)
    /\ \E iterdir \in Perms(worktrees) :
          LET dirs == Sorted(iterdir)
          IN  result' =
                [worktrees |-> [i \in 1..Len(dirs) |->
                                  [spec_id |-> dirs[i], path |-> dirs[i],
                                   branch |-> IF wtBranch[dirs[i]] = NoRepo THEN None
                                              ELSE Some(wtBranch[dirs[i]])]],
                 total |-> Len(dirs)]
    /\ UNCHANGED <<fsVars, jobs, cfgVars>>

\* what a git subprocess does: exit 0, exit non-zero, or subprocess.run raises
GitOutcomes == {"ok", "fail", "throw"}

\* a git listing (diff --name-only, log --oneline): its outcome and, when it
\* exits 0, the non-empty lines of its output
GitListings ==
    {[rc |-> "ok", lines |-> <<>>], [rc |-> "ok", lines |-> <<"line">>],
     [rc |-> "fail", lines |-> <<>>], [rc |-> "throw", lines |-> <<>>]}

ReviewBuild(spec_id) ==
    /\ op' = [name |-> "review_build", spec_id |-> spec_id]
    /\ IF FindSpec(spec_id) = {}
       THEN result' = NotFound(spec_id) /\ gitCalls' = 0
       ELSE \E spec_dir \in FindSpec(spec_id) :
              IF spec_dir \notin worktrees
              THEN /\ result' = [spec_id |-> spec_dir, found |-> TRUE, has_worktree |-> FALSE,
                                 files_changed |-> <<>>, commits |-> <<>>]
                   /\ gitCalls' = 0
              ELSE \E diff \in GitListings, log \in GitListings :
                     /\ result' = [spec_id |-> spec_dir, found |-> TRUE, has_worktree |-> TRUE,
                                   files_changed |-> IF diff.rc = "ok" THEN diff.lines ELSE <<>>,
                                   commits |-> IF log.rc = "ok" THEN log.lines ELSE <<>>]
                     /\ gitCalls' = 2
    /\ UNCHANGED <<fsVars, jobs, cfgVars>>

\* mutant of NoWorktreePreview: the missing worktree reported as mergeable
NoWorktreePreviewMergeable(spec_dir) ==
    [spec_id |-> spec_dir, found |-> TRUE, has_worktree |-> FALSE, can_merge |-> TRUE,
     message |-> <<"No worktree found for this spec">>]

\* merge_preview when worktree_dir does not exist
NoWorktreePreview(spec_dir) ==
    [spec_id |-> spec_dir, found |-> TRUE, has_worktree |-> FALSE, can_merge |-> FALSE,
     message |-> <<"No worktree found for this spec">>]

\* mutant of MergePreview: the merge check leaves the worktree on a detached
\* HEAD
MergePreviewDetaching(spec_id) ==
    /\ op' = [name |-> "merge_preview", spec_id |-> spec_id]
    /\ \E spec_dir \in FindSpec(spec_id) \cap worktrees :
          /\ result' = [spec_id |-> spec_dir, found |-> TRUE, has_worktree |-> TRUE,
                        can_merge |-> TRUE, conflicts |-> <<>>, files_to_merge |-> <<>>]
          /\ wtBranch' = [wtBranch EXCEPT ![spec_dir] = Detached]
    /\ gitCalls' = 2
    /\ UNCHANGED <<specDirs, files, worktreesDir, worktrees, branches, jobs, cfgVars>>

MergePreview(spec_id) ==
    /\ op' = [name |-> "merge_preview", spec_id |-> spec_id]
    /\ IF FindSpec(spec_id) = {}
       THEN result' = NotFound(spec_id) /\ gitCalls' = 0
       ELSE \E spec_dir \in FindSpec(spec_id) :
              IF spec_dir \notin worktrees
              THEN /\ result' = NoWorktreePreview(spec_dir)
                   /\ gitCalls' = 0
              ELSE \E show \in GitOutcomes, merge \in GitOutcomes :
                     LET base == [spec_id |-> spec_dir, found |-> TRUE, has_worktree |-> TRUE,
                                  can_merge |-> TRUE, conflicts |-> <<>>, files_to_merge |-> <<>>]
                         branch == IF show = "ok" THEN wtBranch[spec_dir] ELSE Detached
                     IN  IF show = "throw"
                         THEN /\ result' = [spec_id |-> spec_dir, found |-> TRUE, has_worktree |-> TRUE,
                                            can_merge |-> TRUE, conflicts |-> <<>>,
                                            files_to_merge |-> <<>>, error |-> <<"exception">>]
                              /\ gitCalls' = 1
                         ELSE IF branch = Detached
                         THEN result' = base /\ gitCalls' = 1
                         ELSE IF merge = "throw"
                         THEN /\ result' = [spec_id |-> spec_dir, found |-> TRUE, has_worktree |-> TRUE,
                                            can_merge |-> TRUE, conflicts |-> <<>>,
                                            files_to_merge |-> <<>>, error |-> <<"exception">>]
                              /\ gitCalls' = 2
                         ELSE IF merge = "fail"
                         THEN /\ result' = [base EXCEPT !.can_merge = FALSE, !.conflicts = <<"stderr">>]
                              /\ gitCalls' = 2
                         ELSE result' = base /\ gitCalls' = 2
    /\ UNCHANGED <<fsVars, jobs, cfgVars>>

----------------------------------------------------------------------------
(* Action tools: background jobs and the synchronous merge.                *)

JobKinds == {"build", "qa", "followup"}
JobKeys == JobKinds \X SpecNames

RECURSIVE JobTotal(_, _)
JobTotal(j, keys) ==
    IF keys = {} THEN 0
    ELSE LET k == CHOOSE x \in keys : TRUE
         IN  j[k] + JobTotal(j, keys \ {k})

\* mutant of Launch: no try around Popen, so that its exception leaves the call
LaunchUncaught(kind, spec_dir, started) ==
    \E launched \in BOOLEAN :
        /\ launched => JobTotal(jobs, JobKeys) < MaxJobs
        /\ IF launched
           THEN /\ jobs' = [jobs EXCEPT ![<<kind, spec_dir>>] = @ + 1]
                /\ result' = started
           ELSE /\ jobs' = jobs
                /\ result' = [raised |-> "exception"]

\* subprocess.Popen(cmd, ..., start_new_session=True): either the process is
\* started and its pid returned, or Popen raises.  The argv built from model,
\* max_iterations, auto_continue and skip_qa is carried by the job kind.
Launch(kind, spec_dir, started) ==
    \E launched \in BOOLEAN :
        /\ launched => JobTotal(jobs, JobKeys) < MaxJobs
        /\ IF launched
           THEN /\ jobs' = [jobs EXCEPT ![<<kind, spec_dir>>] = @ + 1]
                /\ result' = started
           ELSE /\ jobs' = jobs
                /\ result' = [status |-> "error", error |-> <<"exception">>]

ActionNotFound(spec_id) == [error |-> NotFoundMsg(spec_id), status |-> "error"]

Modes == {"isolated", "direct"}

\* mutant of RunBuild: a launch refused while a build of the spec is running
RunBuildGuarded(spec_id, mode) ==
    /\ op' = [name |-> "run_build", spec_id |-> spec_id, mode |-> mode]
    /\ gitCalls' = 0
    /\ IF FindSpec(spec_id) = {}
       THEN result' = ActionNotFound(spec_id) /\ jobs' = jobs
       ELSE \E spec_dir \in FindSpec(spec_id) :
              IF jobs[<<"build", spec_dir>>] > 0
              THEN /\ result' = [status |-> "error", error |-> <<"Build already running">>]
                   /\ jobs' = jobs
              ELSE Launch("build", spec_dir,
                          [status |-> "started", spec_id |-> spec_dir,
                           pid |-> JobTotal(jobs, JobKeys) + 1, mode |-> mode,
                           message |-> <<"Build started for", spec_dir>>])
    /\ UNCHANGED <<fsVars, cfgVars>>

RunBuild(spec_id, mode) ==
    /\ op' = [name |-> "run_build", spec_id |-> spec_id, mode |-> mode]
    /\ gitCalls' = 0
    /\ IF FindSpec(spec_id) = {}
       THEN result' = ActionNotFound(spec_id) /\ jobs' = jobs
       ELSE \E spec_dir \in FindSpec(spec_id) :
              Launch("build", spec_dir,
                     [status |-> "started", spec_id |-> spec_dir,
                      pid |-> JobTotal(jobs, JobKeys) + 1, mode |-> mode,
                      message |-> <<"Build started for", spec_dir>>])
    /\ UNCHANGED <<fsVars, cfgVars>>

RunQa(spec_id) ==
    /\ op' = [name |-> "run_qa", spec_id |-> spec_id]
    /\ gitCalls' = 0
    /\ IF FindSpec(spec_id) = {}
       THEN result' = ActionNotFound(spec_id) /\ jobs' = jobs
       ELSE \E spec_dir \in FindSpec(spec_id) :
              Launch("qa", spec_dir,
                     [status |-> "started", spec_id |-> spec_dir,
                      pid |-> JobTotal(jobs, JobKeys) + 1,
                      message |-> <<"QA validation started for", spec_dir>>])
    /\ UNCHANGED <<fsVars, cfgVars>>

RunFollowup(spec_id) ==
    /\ op' = [name |-> "run_followup", spec_id |-> spec_id]
    /\ gitCalls' = 0
    /\ IF FindSpec(spec_id) = {}
       THEN result' = ActionNotFound(spec_id) /\ jobs' = jobs
       ELSE \E spec_dir \in FindSpec(spec_id) :
              Launch("followup", spec_dir,
                     [status |-> "started", spec_id |-> spec_dir,
                      pid |-> JobTotal(jobs, JobKeys) + 1,
                      message |-> <<"Followup planner started for", spec_dir>>])
    /\ UNCHANGED <<fsVars, cfgVars>>

\* subprocess.run(cmd, timeout=60): exit 0, exit non-zero, TimeoutExpired, or
\* another exception.  What run.py --merge does to the repository is outside
\* the tool surface and is not part of this state.
MergeOutcomes == {"ok", "fail", "timeout", "throw"}

MergeBuild(spec_id, no_commit) ==
    /\ op' = [name |-> "merge_build", spec_id |-> spec_id, no_commit |-> no_commit]
    /\ gitCalls' = 0
    /\ IF FindSpec(spec_id) = {}
       THEN result' = ActionNotFound(spec_id)
       ELSE \E spec_dir \in FindSpec(spec_id), run \in MergeOutcomes :
              result' = CASE run = "ok" ->
                               [status |-> "success", spec_id |-> spec_dir,
                                output |-> <<"stdout">>, error |-> None]
                          [] run = "fail" ->
                               [status |-> "error", spec_id |-> spec_dir,
                                output |-> <<"stdout">>, error |-> Some("stderr")]
                          [] run = "timeout" ->
                               [status |-> "error", error |-> <<"Merge timed out">>]
                          [] OTHER ->
                               [status |-> "error", error |-> <<"exception">>]
    /\ UNCHANGED <<fsVars, jobs, cfgVars>>

----------------------------------------------------------------------------
(* Action tools: the destructive ones.                                     *)

\* mutant of DiscardConfirmed: no try around the two subprocesses, so that an
\* exception of either one leaves the call
DiscardUncaught(spec_id, confirm) ==
    /\ op' = [name |-> "discard_build", spec_id |-> spec_id, confirm |-> confirm]
    /\ \E spec_dir \in FindSpec(spec_id) \cap worktrees :
          \E remove \in GitOutcomes, delete \in GitOutcomes :
              LET left == IF remove = "ok" THEN worktrees \ {spec_dir} ELSE worktrees
              IN  /\ delete = "ok" =>
                        /\ remove # "throw"
                        /\ BranchOf(spec_dir) \in branches
                        /\ \A w \in left : wtBranch[w] # BranchOf(spec_dir)
                  /\ worktrees' = left
                  /\ wtBranch' = [w \in left |-> wtBranch[w]]
                  /\ branches' = IF delete = "ok" THEN branches \ {BranchOf(spec_dir)}
                                 ELSE branches
                  /\ gitCalls' = IF remove = "throw" THEN 1 ELSE 2
                  /\ result' = IF remove = "throw" \/ delete = "throw"
                               THEN [raised |-> "exception"]
                               ELSE [status |-> "success", spec_id |-> spec_dir,
                                     message |-> <<"Build for", spec_dir, "has been discarded">>]
    /\ UNCHANGED <<specDirs, files, worktreesDir, jobs, cfgVars>>

\* mutant of DiscardConfirmed: every worktree removed and every branch that
\* is then free deleted, as a cleanup would
DiscardEverything(spec_id, confirm) ==
    /\ op' = [name |-> "discard_build", spec_id |-> spec_id, confirm |-> confirm]
    /\ \E spec_dir \in FindSpec(spec_id) \cap worktrees :
          /\ worktrees' = {}
          /\ wtBranch' = [w \in {} |-> Detached]
          /\ branches' = {}
          /\ gitCalls' = 2
          /\ result' = [status |-> "success", spec_id |-> spec_dir,
                        message |-> <<"Build for", spec_dir, "has been discarded">>]
    /\ UNCHANGED <<specDirs, files, worktreesDir, jobs, cfgVars>>

\* git worktree remove --force <dir>, then git branch -D auto-claude/<name>,
\* both inside one try.  A removal that exits 0 takes the directory away; a
\* branch deletion can exit 0 only for a branch that exists and that no
\* remaining worktree has checked out.  Exit codes are not looked at.
DiscardConfirmed(spec_id, confirm) ==
    /\ op' = [name |-> "discard_build", spec_id |-> spec_id, confirm |-> confirm]
    /\ IF FindSpec(spec_id) = {}
       THEN /\ result' = ActionNotFound(spec_id)
            /\ gitCalls' = 0
            /\ UNCHANGED <<worktrees, wtBranch, branches>>
       ELSE \E spec_dir \in FindSpec(spec_id) :
              IF spec_dir \notin worktrees
              THEN /\ result' = [status |-> "error",
                                 message |-> <<"No worktree found to discard">>]
                   /\ gitCalls' = 0
                   /\ UNCHANGED <<worktrees, wtBranch, branches>>
              ELSE \E remove \in GitOutcomes, delete \in GitOutcomes :
                     LET left == IF remove = "ok" THEN worktrees \ {spec_dir} ELSE worktrees
                     IN  /\ delete = "ok" =>
                               /\ remove # "throw"
                               /\ BranchOf(spec_dir) \in branches
                               /\ \A w \in left : wtBranch[w] # BranchOf(spec_dir)
                         /\ worktrees' = left
                         /\ wtBranch' = [w \in left |-> wtBranch[w]]
                         /\ branches' = IF delete = "ok" THEN branches \ {BranchOf(spec_dir)}
                                        ELSE branches
                         /\ gitCalls' = IF remove = "throw" THEN 1 ELSE 2
                         /\ result' = IF remove = "throw" \/ delete = "throw"
                                      THEN [status |-> "error", error |-> <<"exception">>]
                                      ELSE [status |-> "success", spec_id |-> spec_dir,
                                            message |-> <<"Build for", spec_dir, "has been discarded">>]
    /\ UNCHANGED <<specDirs, files, worktreesDir, jobs, cfgVars>>

DiscardBlocked(spec_id, confirm) ==
    /\ op' = [name |-> "discard_build", spec_id |-> spec_id, confirm |-> confirm]
    /\ result' = [status |-> "blocked",
                  message |-> <<"Set confirm=True to actually discard the build.">>]
    /\ gitCalls' = 0
    /\ UNCHANGED <<fsVars, jobs, cfgVars>>

\* mutant of DiscardBuild: the confirm gate left out
DiscardBuildUngated(spec_id, confirm) == DiscardConfirmed(spec_id, confirm)

DiscardBuild(spec_id, confirm) ==
    IF ~confirm THEN DiscardBlocked(spec_id, confirm) ELSE DiscardConfirmed(spec_id, confirm)

\* mutant of CleanupConfirmed: one try around the whole loop, so that the
\* first removal that raises ends it
CleanupAbortsOnThrow(confirm) ==
    /\ op' = [name |-> "cleanup_worktrees", confirm |-> confirm]
    /\ worktreesDir
    /\ \E order \in Perms(worktrees), remove \in [worktrees -> GitOutcomes] :
          LET throwsAt == {i \in 1..Len(order) : remove[order[i]] = "throw"}
              last == IF throwsAt = {} THEN Len(order)
                      ELSE CHOOSE i \in throwsAt : \A j \in throwsAt : i <= j
              tried == SubSeq(order, 1, last)
              removed == SelectSeq(tried, LAMBDA w : remove[w] # "throw")
              thrown == SelectSeq(tried, LAMBDA w : remove[w] = "throw")
              errors == [i \in 1..Len(thrown) |->
                            [worktree |-> thrown[i], error |-> <<"exception">>]]
              left == {w \in worktrees : remove[w] # "ok" \/ \A i \in 1..last : order[i] # w}
          IN  /\ worktrees' = left
              /\ wtBranch' = [w \in left |-> wtBranch[w]]
              /\ gitCalls' = last
              /\ result' = [status |-> IF errors = <<>> THEN "success" ELSE "partial",
                            removed |-> removed,
                            removed_count |-> Len(removed),
                            errors |-> IF errors = <<>> THEN None ELSE Some(errors)]
    /\ UNCHANGED <<specDirs, files, worktreesDir, branches, jobs, cfgVars>>

\* for wt_dir in worktrees_dir.iterdir(): git worktree remove --force, each in
\* its own try; iterdir() order is arbitrary.  No branch is deleted.
CleanupConfirmed(confirm) ==
    /\ op' = [name |-> "cleanup_worktrees", confirm |-> confirm]
    /\ IF ~worktreesDir
       THEN /\ result' = [status |-> "success", message |-> <<"No worktrees to cleanup">>,
                          removed |-> 0]
            /\ gitCalls' = 0
            /\ UNCHANGED <<worktrees, wtBranch>>
       ELSE \E order \in Perms(worktrees), remove \in [worktrees -> GitOutcomes] :
              LET removed == SelectSeq(order, LAMBDA w : remove[w] # "throw")
                  thrown == SelectSeq(order, LAMBDA w : remove[w] = "throw")
                  errors == [i \in 1..Len(thrown) |->
                                [worktree |-> thrown[i], error |-> <<"exception">>]]
                  left == {w \in worktrees : remove[w] # "ok"}
              IN  /\ worktrees' = left
                  /\ wtBranch' = [w \in left |-> wtBranch[w]]
                  /\ gitCalls' = Cardinality(worktrees)
                  /\ result' = [status |-> IF errors = <<>> THEN "success" ELSE "partial",
                                removed |-> removed,
                                removed_count |-> Len(removed),
                                errors |-> IF errors = <<>> THEN None ELSE Some(errors)]
    /\ UNCHANGED <<specDirs, files, worktreesDir, branches, jobs, cfgVars>>

CleanupBlocked(confirm) ==
    /\ op' = [name |-> "cleanup_worktrees", confirm |-> confirm]
    /\ result' = [status |-> "blocked",
                  message |-> <<"Set confirm=True to cleanup all worktrees.">>]
    /\ gitCalls' = 0
    /\ UNCHANGED <<fsVars, jobs, cfgVars>>

CleanupWorktrees(confirm) ==
    IF ~confirm THEN CleanupBlocked(confirm) ELSE CleanupConfirmed(confirm)

----------------------------------------------------------------------------
(* The project as the tool surface finds it.                               *)

NoEnviron == [AUTO_BUILD_MODEL |-> None, ANTHROPIC_MODEL |-> None,
              ANTHROPIC_SMALL_FAST_MODEL |-> None]

Idle ==
    /\ jobs = [k \in JobKeys |-> 0]
    /\ op = [name |-> "none"]
    /\ result = [status |-> "none"]
    /\ gitCalls = 0

\* a spec directory right after planning, and one whose build and QA are done
DoneDir ==
    [plan |-> [kind |-> "json",
               phases |-> <<[subtasks |-> <<[status |-> Some("complete")]>>]>>],
     review_state |-> [kind |-> "json", approved |-> Some(TRUE), approved_by |-> Some("alice")],
     qa_report |-> Some(<<"QA", "passed">>),
     qa_state |-> [kind |-> "absent"]]

\* Any set of spec directories and any set of worktrees; a worktree has its
\* spec's branch checked out or a detached HEAD, and checked-out branches exist.
Init ==
    /\ specDirs \in SUBSET SpecNames
    /\ files \in [specDirs -> {FreshDir, DoneDir}]
    /\ worktrees \in SUBSET SpecNames
    /\ worktreesDir \in BOOLEAN
    /\ worktrees # {} => worktreesDir
    /\ wtBranch \in [worktrees -> {BranchOf(n) : n \in SpecNames} \cup {Detached}]
    /\ \A w \in worktrees : wtBranch[w] \in {BranchOf(w), Detached}
    /\ branches = {wtBranch[w] : w \in worktrees} \ {Detached}
    /\ environ = NoEnviron
    /\ metadata = None
    /\ Idle

\* the tools that read or change workspaces
Next ==
    \/ \E spec_id \in SpecIds : GetSpecStatus(spec_id)
    \/ \E spec_id \in SpecIds : GetQaStatus(spec_id)
    \/ \E spec_id \in SpecIds : ReviewBuild(spec_id)
    \/ \E spec_id \in SpecIds : MergePreview(spec_id)
    \/ \E spec_id \in SpecIds, confirm \in BOOLEAN : DiscardBuild(spec_id, confirm)
    \/ \E confirm \in BOOLEAN : CleanupWorktrees(confirm)
    \/ ListSpecs
    \/ ListWorktrees

Spec == Init /\ [][Next]_vars

\* a spec directory whose build is under way
InProgressDir ==
    [FreshDir EXCEPT !.plan = [kind |-> "json",
                               phases |-> <<[subtasks |-> <<[status |-> Some("in_progress")]>>]>>]]

\* The whole tool surface on a project without worktrees, each spec planned
\* or done: launches add background jobs, nothing else changes.
InitJobs ==
    /\ specDirs \in SUBSET SpecNames
    /\ files \in [specDirs -> {FreshDir, DoneDir}]
    /\ worktrees = {}
    /\ worktreesDir = FALSE
    /\ wtBranch = [w \in {} |-> Detached]
    /\ branches = {}
    /\ environ = NoEnviron
    /\ metadata = None
    /\ Idle

NextJobs ==
    \/ \E spec_id \in SpecIds, mode \in Modes : RunBuild(spec_id, mode)
    \/ \E spec_id \in SpecIds : RunQa(spec_id)
    \/ \E spec_id \in SpecIds : RunFollowup(spec_id)
    \/ \E spec_id \in SpecIds, no_commit \in BOOLEAN : MergeBuild(spec_id, no_commit)
    \/ Next

SpecJobs == InitJobs /\ [][NextJobs]_vars

\* One spec directory with any plan of the bounded shape and any QA report:
\* the inputs of the status derivation.
InitStatus ==
    /\ specDirs = {<<"001", "feature">>}
    /\ \E plan \in PlanFiles, report \in QaReports :
          files = [d \in specDirs |-> [FreshDir EXCEPT !.plan = plan, !.qa_report = report]]
    /\ worktrees = {}
    /\ worktreesDir = FALSE
    /\ wtBranch = [w \in {} |-> Detached]
    /\ branches = {}
    /\ environ = NoEnviron
    /\ metadata = None
    /\ Idle

NextStatus ==
    \/ \E spec_id \in SpecIds : GetSpecStatus(spec_id)
    \/ \E spec_id \in SpecIds : GetQaStatus(spec_id)
    \/ ListSpecs

SpecStatus == InitStatus /\ [][NextStatus]_vars

\* One spec directory with any qa_state.json, any qa_report.md and any
\* review_state.json, planned or built: the inputs of the QA status.
InitQa ==
    /\ specDirs = {<<"001", "feature">>}
    /\ \E dir \in {FreshDir, DoneDir}, state \in QaStates, report \in QaReports,
          review \in ReviewFiles :
          files = [d \in specDirs |-> [dir EXCEPT !.qa_state = state, !.qa_report = report,
                                                 !.review_state = review]]
    /\ worktrees = {}
    /\ worktreesDir = FALSE
    /\ wtBranch = [w \in {} |-> Detached]
    /\ branches = {}
    /\ environ = NoEnviron
    /\ metadata = None
    /\ Idle

NextQa ==
    \/ \E spec_id \in SpecIds : GetQaStatus(spec_id)
    \/ \E spec_id \in SpecIds : GetSpecStatus(spec_id)
    \/ ListSpecs

SpecQa == InitQa /\ [][NextQa]_vars

\* The two listings over any set of spec directories and of worktrees, with
\* the two tools that take worktrees away.  A worktree has its spec's branch
\* checked out, or a detached HEAD, or is no checkout at all; the branch named
\* after a spec may exist without being checked out in the spec's worktree
\* (the build made it, and HEAD was moved since).
InitLists ==
    /\ specDirs \in SUBSET SpecNames
    /\ files \in [specDirs -> {FreshDir, InProgressDir, DoneDir}]
    /\ worktrees \in SUBSET SpecNames
    /\ worktreesDir \in BOOLEAN
    /\ worktrees # {} => worktreesDir
    /\ wtBranch \in [worktrees -> {BranchOf(n) : n \in SpecNames} \cup {Detached, NoRepo}]
    /\ \A w \in worktrees : wtBranch[w] \in {BranchOf(w), Detached, NoRepo}
    /\ branches \in SUBSET {BranchOf(n) : n \in SpecNames}
    /\ {wtBranch[w] : w \in worktrees} \ {Detached, NoRepo} \subseteq branches
    /\ environ = NoEnviron
    /\ metadata = None
    /\ Idle

NextLists ==
    \/ ListSpecs
    \/ ListWorktrees
    \/ \E spec_id \in SpecIds, confirm \in BOOLEAN : DiscardBuild(spec_id, confirm)
    \/ \E confirm \in BOOLEAN : CleanupWorktrees(confirm)

SpecLists == InitLists /\ [][NextLists]_vars

----------------------------------------------------------------------------
(* phase_config.py: model identifiers and the environment's redirects.     *)

Phases == {"spec", "planning", "coding", "qa"}

DEFAULT_MODEL_IDS ==
    [opus |-> "claude-opus-4-5-20251101",
     sonnet |-> "claude-sonnet-4-5-20250929",
     haiku |-> "claude-haiku-4-5-20251001"]

\* common_ids of get_model_id_map, split by `"haiku" in cid`
HaikuIds ==
    {"claude-3-5-haiku-latest", "claude-3-5-haiku-20241022", "claude-haiku-4-5-latest",
     "claude-haiku-4-5-20251001", "claude-3-haiku-20240307"}
OtherIds ==
    {"claude-3-5-sonnet-latest", "claude-3-5-sonnet-20241022", "claude-sonnet-4-5-latest",
     "claude-sonnet-4-5-20250929", "claude-3-opus-latest", "claude-3-opus-20240229",
     "claude-opus-4-5-latest", "claude-opus-4-5-20251101", "claude-3-sonnet-20240229"}

\* str.lower() on the identifiers of this model: two of them have capitals
Lower(model_id) ==
    CASE model_id = "Sonnet" -> "sonnet"
      [] model_id = "HAIKU" -> "haiku"
      [] OTHER -> model_id

\* truth value of an Optional[str]: None and "" are false
Truthy(opt) == opt # None /\ opt[1] # ""

\* a or b
Or(a, b) == IF Truthy(a) THEN a ELSE b

PrimaryModel == Or(environ.AUTO_BUILD_MODEL, environ.ANTHROPIC_MODEL)
FastModel == Or(environ.ANTHROPIC_SMALL_FAST_MODEL, PrimaryModel)

\* get_model_id_map: the defaults, overwritten by the environment's models
GetModelIdMap ==
    LET keys == {"opus", "sonnet", "haiku"}
                    \cup (IF Truthy(PrimaryModel) THEN OtherIds ELSE {})
                    \cup (IF Truthy(FastModel) THEN HaikuIds ELSE {})
    IN  [k \in keys |->
            IF k = "haiku" \/ k \in HaikuIds
            THEN (IF Truthy(FastModel) THEN FastModel[1] ELSE DEFAULT_MODEL_IDS[k])
            ELSE (IF Truthy(PrimaryModel) THEN PrimaryModel[1] ELSE DEFAULT_MODEL_IDS[k])]

\* mutant of ResolveModelId: "haiku" kept as an alias of "sonnet", to be
\* resolved by a second pass
ResolveAliasChain(model_id) ==
    IF ~Truthy(model_id) THEN ""
    ELSE IF Lower(model_id[1]) = "haiku" THEN "sonnet"
    ELSE LET mapping == GetModelIdMap
         IN  IF Lower(model_id[1]) \in DOMAIN mapping
             THEN mapping[Lower(model_id[1])]
             ELSE model_id[1]

\* resolve_model_id on an Optional[str]
ResolveModelId(model_id) ==
    IF ~Truthy(model_id) THEN ""
    ELSE LET mapping == GetModelIdMap
         IN  IF Lower(model_id[1]) \in DOMAIN mapping
             THEN mapping[Lower(model_id[1])]
             ELSE model_id[1]

DEFAULT_PHASE_MODELS ==
    [spec |-> "sonnet", planning |-> "opus", coding |-> "sonnet", qa |-> "sonnet"]

DEFAULT_PHASE_THINKING ==
    [spec |-> "medium", planning |-> "high", coding |-> "medium", qa |-> "high"]

\* dict.get(key, default) on a per-phase map
MapGet(map, key, default) == IF key \in DOMAIN map THEN map[key] ELSE default

\* mutant of PhaseModel: the order the docstring gives, the CLI argument first
PhaseModelCliFirst(phase, cli_model) ==
    IF Truthy(cli_model) THEN ResolveModelId(cli_model)
    ELSE IF Truthy(PrimaryModel) THEN ResolveModelId(PrimaryModel)
    ELSE IF metadata # None /\ metadata[1].isAutoProfile /\ DOMAIN metadata[1].phaseModels # {}
    THEN ResolveModelId(Some(MapGet(metadata[1].phaseModels, phase, DEFAULT_PHASE_MODELS[phase])))
    ELSE IF metadata # None /\ Truthy(metadata[1].model)
    THEN ResolveModelId(metadata[1].model)
    ELSE ResolveModelId(Some(DEFAULT_PHASE_MODELS[phase]))

\* get_phase_model
PhaseModel(phase, cli_model) ==
    IF Truthy(PrimaryModel) THEN ResolveModelId(PrimaryModel)
    ELSE IF Truthy(cli_model) THEN ResolveModelId(cli_model)
    ELSE IF metadata # None /\ metadata[1].isAutoProfile /\ DOMAIN metadata[1].phaseModels # {}
    THEN ResolveModelId(Some(MapGet(metadata[1].phaseModels, phase, DEFAULT_PHASE_MODELS[phase])))
    ELSE IF metadata # None /\ Truthy(metadata[1].model)
    THEN ResolveModelId(metadata[1].model)
    ELSE ResolveModelId(Some(DEFAULT_PHASE_MODELS[phase]))

\* mutant of PhaseThinking: the metadata consulted before the CLI argument
PhaseThinkingMetadataFirst(phase, cli_thinking) ==
    IF metadata # None /\ metadata[1].isAutoProfile /\ DOMAIN metadata[1].phaseThinking # {}
    THEN MapGet(metadata[1].phaseThinking, phase, DEFAULT_PHASE_THINKING[phase])
    ELSE IF metadata # None /\ Truthy(metadata[1].thinkingLevel)
    THEN metadata[1].thinkingLevel[1]
    ELSE IF Truthy(cli_thinking) THEN cli_thinking[1]
    ELSE DEFAULT_PHASE_THINKING[phase]

\* get_phase_thinking
PhaseThinking(phase, cli_thinking) ==
    IF Truthy(cli_thinking) THEN cli_thinking[1]
    ELSE IF metadata # None /\ metadata[1].isAutoProfile /\ DOMAIN metadata[1].phaseThinking # {}
    THEN MapGet(metadata[1].phaseThinking, phase, DEFAULT_PHASE_THINKING[phase])
    ELSE IF metadata # None /\ Truthy(metadata[1].thinkingLevel)
    THEN metadata[1].thinkingLevel[1]
    ELSE DEFAULT_PHASE_THINKING[phase]

THINKING_BUDGET_MAP ==
    [none |-> None, low |-> Some(1024), medium |-> Some(4096), high |-> Some(16384),
     ultrathink |-> Some(65536)]

\* mutant of ThinkingBudget: an unknown level gets no budget
ThinkingBudgetStrict(thinking_level) ==
    IF thinking_level \notin DOMAIN THINKING_BUDGET_MAP THEN None
    ELSE THINKING_BUDGET_MAP[thinking_level]

\* get_thinking_budget
ThinkingBudget(thinking_level) ==
    IF thinking_level \notin DOMAIN THINKING_BUDGET_MAP THEN THINKING_BUDGET_MAP["medium"]
    ELSE THINKING_BUDGET_MAP[thinking_level]

GetPhaseModel(phase, cli_model) ==
    /\ op' = [name |-> "get_phase_model", phase |-> phase, cli_model |-> cli_model]
    /\ result' = [value |-> PhaseModel(phase, cli_model)]
    /\ UNCHANGED <<fsVars, jobs, cfgVars, gitCalls>>

CallResolveModelId(model_id) ==
    /\ op' = [name |-> "resolve_model_id", model_id |-> model_id]
    /\ result' = [value |-> ResolveModelId(Some(model_id))]
    /\ UNCHANGED <<fsVars, jobs, cfgVars, gitCalls>>

\* resolve_model_id called on the identifier the last resolution returned
ResolveResolved ==
    /\ op.name = "resolve_model_id"
    /\ op' = [name |-> "resolve_model_id", model_id |-> result.value]
    /\ result' = [value |-> ResolveModelId(Some(result.value))]
    /\ UNCHANGED <<fsVars, jobs, cfgVars, gitCalls>>

GetPhaseThinking(phase, cli_thinking) ==
    /\ op' = [name |-> "get_phase_thinking", phase |-> phase, cli_thinking |-> cli_thinking]
    /\ result' = [value |-> PhaseThinking(phase, cli_thinking)]
    /\ UNCHANGED <<fsVars, jobs, cfgVars, gitCalls>>

GetThinkingBudget(thinking_level) ==
    /\ op' = [name |-> "get_thinking_budget", thinking_level |-> thinking_level]
    /\ result' = [value |-> ThinkingBudget(thinking_level)]
    /\ UNCHANGED <<fsVars, jobs, cfgVars, gitCalls>>

\* get_phase_thinking_budget
GetPhaseThinkingBudget(phase, cli_thinking) ==
    /\ op' = [name |-> "get_phase_thinking_budget", phase |-> phase,
              cli_thinking |-> cli_thinking]
    /\ result' = [value |-> ThinkingBudget(PhaseThinking(phase, cli_thinking))]
    /\ UNCHANGED <<fsVars, jobs, cfgVars, gitCalls>>

(* The inputs of the resolution: the environment, the metadata, the arguments. *)

Environs ==
    [AUTO_BUILD_MODEL : {None, Some(""), Some("kimi-k2")},
     ANTHROPIC_MODEL : {None, Some("HAIKU")},
     ANTHROPIC_SMALL_FAST_MODEL : {None, Some("kimi-fast"), Some("sonnet")}]

\* per-phase maps of at most MaxMapEntries entries
PhaseMaps(values) ==
    UNION {[ps -> values] : ps \in {q \in SUBSET Phases : Cardinality(q) <= MaxMapEntries}}

NoMap == [ph \in {} |-> ""]

ModelMetadata ==
    {None} \cup
    {Some([isAutoProfile |-> auto, phaseModels |-> models, phaseThinking |-> NoMap,
           model |-> model, thinkingLevel |-> None]) :
        auto \in BOOLEAN, models \in PhaseMaps({"opus", "glm-4"}),
        model \in {None, Some(""), Some("haiku")}}

ThinkingMetadata ==
    {None} \cup
    {Some([isAutoProfile |-> auto, phaseModels |-> NoMap, phaseThinking |-> thinking,
           model |-> None, thinkingLevel |-> level]) :
        auto \in BOOLEAN, thinking \in PhaseMaps({"low", "ultrathink"}),
        level \in {None, Some(""), Some("none")}}

CliModels == {None, Some(""), Some("opus")}
ModelInputs == {"Sonnet", "haiku", "claude-3-haiku-20240307", "claude-3-opus-latest",
                "kimi-k2", "vendor/model"}
CliThinking == {None, Some(""), Some("high"), Some("turbo")}
ThinkingLevels == {"none", "low", "medium", "high", "ultrathink", "turbo", "HIGH", ""}

InitConfig(metadatas) ==
    /\ specDirs = {<<"001", "feature">>}
    /\ files = [d \in specDirs |-> FreshDir]
    /\ worktrees = {}
    /\ worktreesDir = FALSE
    /\ wtBranch = [w \in {} |-> Detached]
    /\ branches = {}
    /\ environ \in Environs
    /\ metadata \in metadatas
    /\ Idle

InitModel == InitConfig(ModelMetadata)

NextModel ==
    \/ \E phase \in Phases, cli_model \in CliModels : GetPhaseModel(phase, cli_model)
    \/ \E model_id \in ModelInputs : CallResolveModelId(model_id)
    \/ ResolveResolved

SpecModel == InitModel /\ [][NextModel]_vars

InitThinking == InitConfig(ThinkingMetadata)

NextThinking ==
    \/ \E phase \in Phases, cli_thinking \in CliThinking : GetPhaseThinking(phase, cli_thinking)
    \/ \E thinking_level \in ThinkingLevels : GetThinkingBudget(thinking_level)
    \/ \E phase \in Phases, cli_thinking \in CliThinking :
          GetPhaseThinkingBudget(phase, cli_thinking)

SpecThinking == InitThinking /\ [][NextThinking]_vars

----------------------------------------------------------------------------
(* Claims.                                                                 *)

\* the subtasks of the plan file of the directory a query resolved
LoadedPlan(spec_dir) == LoadImplementationPlan(files[spec_dir])
SubtasksOf(spec_dir) ==
    IF LoadedPlan(spec_dir) = None \/ ~IsDict(LoadedPlan(spec_dir)[1]) THEN <<>>
    ELSE AllSubtasks(LoadedPlan(spec_dir)[1].phases)
HasStatus(spec_dir, status) ==
    \E i \in 1..Len(SubtasksOf(spec_dir)) : SubtasksOf(spec_dir)[i].status = Some(status)
AllComplete(spec_dir) ==
    /\ SubtasksOf(spec_dir) # <<>>
    /\ \A i \in 1..Len(SubtasksOf(spec_dir)) : SubtasksOf(spec_dir)[i].status = Some("complete")
StatusReported == op.name = "get_spec_status" /\ "found" \in DOMAIN result /\ result.found

\* C1: discard_build and cleanup_worktrees called with confirm false return
\* status "blocked", start no version-control subprocess, and leave every
\* worktree, every checked-out branch and every branch as it was, whatever
\* the spec id.
C1_ConfirmationGate ==
    [][(op'.name \in {"discard_build", "cleanup_worktrees"} /\ ~op'.confirm)
          => /\ result'.status = "blocked"
             /\ gitCalls' = 0
             /\ UNCHANGED <<worktreesDir, worktrees, wtBranch, branches>>]_vars

C1_Witness ==
    /\ op.name = "discard_build"
    /\ ~op.confirm
    /\ result.status = "blocked"
    /\ FindSpec(op.spec_id) \cap worktrees # {}
    /\ branches # {}

\* C2: a plan with at least one stuck and at least one in_progress subtask
\* has overall status in_progress.
C2_PriorityLaw ==
    (StatusReported /\ HasStatus(result.id, "stuck") /\ HasStatus(result.id, "in_progress"))
        => result.status = "in_progress"

C2_Witness ==
    /\ StatusReported
    /\ HasStatus(result.id, "stuck")
    /\ HasStatus(result.id, "in_progress")
    /\ result.status = "in_progress"

\* C3: a plan with at least one subtask, all complete, is qa_complete exactly
\* when qa_report.md exists and complete exactly when it does not; a plan
\* with a subtask that is not complete is neither.
C3_CompleteAndQa ==
    StatusReported =>
        /\ AllComplete(result.id) =>
              /\ result.status = "qa_complete" <=> files[result.id].qa_report # None
              /\ result.status = "complete" <=> files[result.id].qa_report = None
        /\ ~AllComplete(result.id) => result.status \notin {"complete", "qa_complete"}

C3_Witness ==
    /\ StatusReported
    /\ AllComplete(result.id)
    /\ files[result.id].qa_report # None
    /\ result.status = "qa_complete"

\* C4: the status is always one of the five lifecycle states; it is decided
\* by the subtask counts the same call reports and by whether a QA report
\* exists, and by nothing else; and it is pending when no plan is loaded or
\* the plan has no subtask, also when a QA report exists.
C4_TotalAndPendingWhenEmpty ==
    StatusReported =>
        /\ result.status \in {"pending", "in_progress", "stuck", "complete", "qa_complete"}
        /\ result.status =
              StatusFromCounts(result.subtasks, files[result.id].qa_report # None)
        /\ SubtasksOf(result.id) = <<>> => result.status = "pending"

C4_Witness ==
    /\ StatusReported
    /\ LoadedPlan(result.id) # None
    /\ LoadedPlan(result.id)[1].phases # <<>>
    /\ SubtasksOf(result.id) = <<>>
    /\ files[result.id].qa_report # None
    /\ result.status = "pending"

\* C5: a plan that is not all-complete and has no in_progress subtask is
\* stuck when it has a stuck subtask and pending otherwise.
C5_StuckThenPending ==
    (StatusReported /\ ~AllComplete(result.id) /\ ~HasStatus(result.id, "in_progress"))
        => result.status = IF HasStatus(result.id, "stuck") THEN "stuck" ELSE "pending"

C5_Witness ==
    /\ StatusReported
    /\ ~AllComplete(result.id)
    /\ HasStatus(result.id, "complete")
    /\ HasStatus(result.id, "stuck")
    /\ result.status = "stuck"

AutoThinkingMap ==
    IF metadata # None /\ metadata[1].isAutoProfile THEN metadata[1].phaseThinking ELSE NoMap
DeclaredThinking == IF metadata = None THEN None ELSE metadata[1].thinkingLevel

C8_BudgetMapping ==
    op.name = "get_thinking_budget" =>
        result.value =
            CASE op.thinking_level = "none" -> None
              [] op.thinking_level = "low" -> Some(1024)
              [] op.thinking_level = "medium" -> Some(4096)
              [] op.thinking_level = "high" -> Some(16384)
              [] op.thinking_level = "ultrathink" -> Some(65536)
              [] OTHER -> Some(4096)

C8_Witness ==
    /\ op.name = "get_thinking_budget"
    /\ op.thinking_level = "turbo"
    /\ result.value = Some(4096)

\* C9: every operation that takes a spec id, called with an id that resolves
\* to no spec directory, returns found = false and the error
\* "Spec '<id>' not found".
SpecIdOps ==
    {"get_spec_status", "get_qa_status", "review_build", "merge_preview", "run_build",
     "run_qa", "run_followup", "merge_build", "discard_build"}

C9_UniformNotFound ==
    (op.name \in SpecIdOps /\ FindSpec(op.spec_id) = {})
        => /\ "found" \in DOMAIN result
           /\ result.found = FALSE
           /\ "error" \in DOMAIN result
           /\ result.error = NotFoundMsg(op.spec_id)

\* C10: merge_preview for a spec that exists and has no worktree directory
\* returns has_worktree = false and can_merge = false with a message, and
\* starts no version-control subprocess.
C10_PreviewWithoutWorktree ==
    (op.name = "merge_preview" /\ result.found /\ result.spec_id \notin worktrees)
        => /\ result.has_worktree = FALSE
           /\ result.can_merge = FALSE
           /\ "message" \in DOMAIN result
           /\ gitCalls = 0

C10_Witness ==
    /\ op.name = "merge_preview"
    /\ result.found
    /\ result.spec_id \notin worktrees
    /\ worktrees # {}
    /\ result.can_merge = FALSE

\* how often a workspace is named in a sequence of names
Occurrences(names, w) == Cardinality({i \in 1..Len(names) : names[i] = w})

\* C11: a confirmed cleanup_worktrees over an existing workspaces directory
\* accounts for every workspace exactly once, either in removed or in one
\* error entry; a workspace whose removal raised has its error entry and is
\* still there, a workspace that is gone is in removed; removed_count is the
\* length of removed; and the status is "partial" exactly when there is an
\* error entry and "success" otherwise.
C11_CleanupAggregates ==
    [][(op'.name = "cleanup_worktrees" /\ op'.confirm /\ worktreesDir)
          => LET removed == result'.removed
                 errors == Get(result'.errors, <<>>)
                 failed == [i \in 1..Len(errors) |-> errors[i].worktree]
             IN  /\ \A w \in worktrees :
                       Occurrences(removed, w) + Occurrences(failed, w) = 1
                 /\ Len(removed) + Len(failed) = Cardinality(worktrees)
                 /\ \A w \in worktrees \ worktrees' : Occurrences(removed, w) = 1
                 /\ \A i \in 1..Len(failed) : failed[i] \in worktrees'
                 /\ result'.removed_count = Len(removed)
                 /\ result'.status = IF failed = <<>> THEN "success" ELSE "partial"
                 /\ result'.status = "partial" <=> result'.errors # None]_vars

C11_Witness ==
    /\ op.name = "cleanup_worktrees"
    /\ op.confirm
    /\ result.status = "partial"
    /\ result.removed_count = 1
    /\ Len(result.errors[1]) = 1
    /\ result.removed[1] \notin worktrees
    /\ result.errors[1][1].worktree \in worktrees

\* C12: a list_specs call right after a list_specs call, and a list_worktrees
\* call right after a list_worktrees call, returns what the first one
\* returned, entry for entry and in the same order.
C12_RepeatableLists ==
    [][(op.name \in {"list_specs", "list_worktrees"} /\ op'.name = op.name
            /\ UNCHANGED fsVars)
          => result' = result]_vars

C12_Witness ==
    /\ op.name = "list_worktrees"
    /\ result.total = 2
    /\ NameLess(result.worktrees[1].spec_id, result.worktrees[2].spec_id)
    /\ result.worktrees[1].branch = None
    /\ result.worktrees[2].branch = Some(BranchOf(result.worktrees[2].spec_id))

\* the statuses of the subtasks of one phase of the plan a query resolved
PhaseOf(spec_dir, p) == LoadedPlan(spec_dir)[1].phases[p].subtasks
PhaseHas(spec_dir, p, statuses) ==
    \E k \in 1..Len(PhaseOf(spec_dir, p)) : PhaseOf(spec_dir, p)[k].status \in statuses
PhaseAllComplete(spec_dir, p) ==
    \A k \in 1..Len(PhaseOf(spec_dir, p)) : PhaseOf(spec_dir, p)[k].status = Some("complete")

\* C13: in a get_spec_status result every phase is "complete" when all its
\* subtasks are complete, otherwise "in_progress" when at least one of its
\* subtasks is complete or in_progress, otherwise "pending".
C13_PhaseStatus ==
    StatusReported =>
        \A p \in 1..Len(result.phases) :
            result.phases[p].status =
                IF PhaseAllComplete(result.id, p) THEN "complete"
                ELSE IF PhaseHas(result.id, p, {Some("complete"), Some("in_progress")})
                THEN "in_progress"
                ELSE "pending"

\* C14: whatever implementation_plan.json holds, list_specs and
\* get_spec_status end with a result of their own shape, never with an
\* exception.
C14_PlanNeverRaises ==
    /\ op.name = "get_spec_status" => "found" \in DOMAIN result
    /\ op.name = "list_specs" => "specs" \in DOMAIN result

\* C15: without an environment override and without a per-call model, a
\* metadata that declares an auto profile makes get_phase_model return the
\* resolution of the phase's entry in the per-phase map, or of the per-phase
\* default when the map (empty or not) has no entry for the phase; the
\* single model field plays no part.
C15_AutoProfileModel ==
    (/\ op.name = "get_phase_model"
     /\ ~Truthy(PrimaryModel)
     /\ ~Truthy(op.cli_model)
     /\ metadata # None
     /\ metadata[1].isAutoProfile)
        => result.value =
              ResolveModelId(Some(MapGet(metadata[1].phaseModels, op.phase,
                                         DEFAULT_PHASE_MODELS[op.phase])))

\* C16: merge_preview on an existing worktree reports can_merge = true only
\* when both version-control subprocesses were started and none raised.
C16_CanMergeOnlyWhenChecked ==
    (/\ op.name = "merge_preview"
     /\ result.found
     /\ result.has_worktree
     /\ result.can_merge)
        => /\ gitCalls = 2
           /\ "error" \notin DOMAIN result

\* C17: a confirmed discard_build on a spec whose directory has a worktree
\* ends with a result whose status is "success" or "error", whatever the two
\* subprocesses do; it is "success" only when both were started, and "error"
\* when the first one raised.
C17_DiscardTerminal ==
    [][(/\ op'.name = "discard_build"
        /\ op'.confirm
        /\ FindSpec(op'.spec_id) # {}
        /\ FindSpec(op'.spec_id) \subseteq worktrees)
          => /\ "status" \in DOMAIN result'
             /\ result'.status \in {"success", "error"}
             /\ gitCalls' \in {1, 2}
             /\ result'.status = "success" => gitCalls' = 2
             /\ gitCalls' = 1 => result'.status = "error"]_vars

C17_Witness ==
    /\ op.name = "discard_build"
    /\ op.confirm
    /\ result.status = "error"
    /\ "error" \in DOMAIN result
    /\ gitCalls = 2
    /\ FindSpec(op.spec_id) # {}
    /\ FindSpec(op.spec_id) \cap worktrees = {}

LaunchOps == {"run_build", "run_qa", "run_followup"}

C19_QaStatePrecedence ==
    (op.name = "get_qa_status" /\ result.found) =>
        LET state == files[result.spec_id].qa_state
            report == files[result.spec_id].qa_report
        IN  /\ state.kind = "json" =>
                  /\ result.passed = (state.passed = Some(TRUE))
                  /\ result.issues = (IF state.issues = None THEN <<>> ELSE state.issues[1])
                  /\ result.last_run = state.last_run
                  /\ result.qa_run
            /\ (state.kind = "absent" /\ report # None) =>
                  /\ result.passed =
                        (\E i \in 1..Len(report[1]) :
                            report[1][i] \in {"CHECKMARK", "PASSED", "passed"})
                  /\ result.qa_run
            /\ (state.kind = "absent" /\ report = None) => ~result.passed
            /\ state.kind = "garbage" => ~result.passed

C19_Witness ==
    /\ op.name = "get_qa_status"
    /\ result.found
    /\ files[result.spec_id].qa_state.kind = "json"
    /\ files[result.spec_id].qa_state.passed = Some(FALSE)
    /\ files[result.spec_id].qa_report = Some(<<"QA", "passed">>)
    /\ ~result.passed
    /\ result.issues = <<"bug">>

\* how many subtasks of the resolved plan have their status in a set
CountWith(spec_dir, statuses) ==
    Cardinality({i \in 1..Len(SubtasksOf(spec_dir)) : SubtasksOf(spec_dir)[i].status \in statuses})

\* C20: the counts of a get_spec_status result put every subtask of the plan
\* in exactly one of completed, in_progress, stuck and pending, a subtask
\* with no status or with a status outside these four in pending; the four
\* add up to total, the number of subtasks.
C20_CountsPartition ==
    StatusReported =>
        LET c == result.subtasks
            known == {Some("complete"), Some("in_progress"), Some("stuck")}
        IN  /\ c.total = Len(SubtasksOf(result.id))
            /\ c.completed = CountWith(result.id, {Some("complete")})
            /\ c.in_progress = CountWith(result.id, {Some("in_progress")})
            /\ c.stuck = CountWith(result.id, {Some("stuck")})
            /\ c.pending = c.total - CountWith(result.id, known)
            /\ c.completed + c.in_progress + c.pending + c.stuck = c.total

C20_Witness ==
    /\ StatusReported
    /\ CountWith(result.id, {None}) = 1
    /\ CountWith(result.id, {Some("blocked")}) = 1
    /\ result.subtasks.pending = 2
    /\ result.subtasks.total = 2

\* C21: get_qa_status with a qa_state.json that does not parse answers as it
\* does without the file: from qa_report.md when that exists (qa_run true,
\* passed by its pass marker), and with the defaults otherwise; and
\* get_spec_status with a review_state.json that does not parse reports
\* approved = false and approved_by = none.
C21_UnparseableAsAbsent ==
    /\ (op.name = "get_qa_status" /\ result.found
            /\ files[result.spec_id].qa_state.kind = "garbage")
          => LET report == files[result.spec_id].qa_report
             IN  /\ result.qa_run = (report # None)
                 /\ result.passed =
                       (/\ report # None
                        /\ \E i \in 1..Len(report[1]) :
                              report[1][i] \in {"CHECKMARK", "PASSED", "passed"})
                 /\ result.issues = <<>>
                 /\ result.last_run = (IF report # None THEN Some("mtime") ELSE None)
    /\ (StatusReported /\ files[result.id].review_state.kind = "garbage")
          => /\ result.approved = FALSE
             /\ result.approved_by = None

\* C22: after a confirmed cleanup_worktrees over an existing worktrees
\* directory has returned status "success", none of the worktrees it lists
\* as removed is left, and neither is the branch of any of them.
C22_CleanupRemovesAll ==
    (/\ op.name = "cleanup_worktrees"
     /\ op.confirm
     /\ result.status = "success"
     /\ "removed_count" \in DOMAIN result)
        => \A i \in 1..Len(result.removed) :
              /\ result.removed[i] \notin worktrees
              /\ BranchOf(result.removed[i]) \notin branches

\* C25: after a confirmed discard_build has returned status "success" for a
\* spec, that spec has no worktree directory.
C25_DiscardedIsGone ==
    (op.name = "discard_build" /\ result.status = "success")
        => result.spec_id \notin worktrees

\* C26: a spec id that is the name of a spec directory resolves to that
\* directory, also when another directory's name starts with the id and "-".
C26_ExactMatchWins ==
    (/\ op.name \in {"get_spec_status", "get_qa_status", "review_build", "merge_preview"}
     /\ op.spec_id \in specDirs
     /\ "found" \in DOMAIN result
     /\ result.found)
        => (IF op.name = "get_spec_status" THEN result.id ELSE result.spec_id) = op.spec_id

ReadOps ==
    {"list_specs", "get_spec_status", "get_qa_status", "review_build", "list_worktrees",
     "merge_preview"}

\* C23: list_specs, get_spec_status, get_qa_status, review_build,
\* list_worktrees and merge_preview leave the spec directories, their files,
\* the worktrees, what each worktree has checked out and the branches as
\* they were.
C23_ReadsChangeNothing ==
    [][op'.name \in ReadOps
          => UNCHANGED <<specDirs, files, worktreesDir, worktrees, wtBranch, branches>>]_vars

C23_Witness ==
    /\ op.name = "merge_preview"
    /\ result.found
    /\ result.has_worktree
    /\ gitCalls = 2
    /\ wtBranch[result.spec_id] = BranchOf(result.spec_id)
    /\ BranchOf(result.spec_id) \in branches

\* C24: run_build for a spec that is found is answered "started" or with the
\* error of a launch that failed, and with nothing else, whatever the spec's
\* plan says and whatever jobs are running; a second build of a spec is
\* started while its first one is running.
C24_NoLaunchRefusal ==
    [][(op'.name = "run_build" /\ FindSpec(op'.spec_id) # {})
          => \/ /\ result'.status = "started"
                /\ jobs'[<<"build", result'.spec_id>>] = jobs[<<"build", result'.spec_id>>] + 1
             \/ /\ result'.status = "error"
                /\ result'.error = <<"exception">>]_vars

C24_Witness ==
    /\ op.name = "run_build"
    /\ result.status = "started"
    /\ jobs[<<"build", result.spec_id>>] = 2
    /\ files[result.spec_id] = DoneDir

\* C27: a confirmed discard_build leaves the spec directories and their
\* files as they were; of the worktrees it takes away at most the one of a
\* directory the spec id resolves to, of the branches at most the one named
\* after that directory, and every worktree that is left has checked out
\* what it had; for a spec id that resolves to nothing, nothing changes.
C27_DiscardFrame ==
    [][(op'.name = "discard_build" /\ op'.confirm)
          => /\ UNCHANGED <<specDirs, files, worktreesDir>>
             /\ worktrees' \subseteq worktrees
             /\ branches' \subseteq branches
             /\ \A w \in worktrees' : wtBranch'[w] = wtBranch[w]
             /\ IF FindSpec(op'.spec_id) = {}
                THEN worktrees' = worktrees /\ branches' = branches
                ELSE \E d \in FindSpec(op'.spec_id) :
                        /\ worktrees \ {d} \subseteq worktrees'
                        /\ branches \ {BranchOf(d)} \subseteq branches']_vars

C27_Witness ==
    /\ op.name = "discard_build"
    /\ op.confirm
    /\ result.status = "success"
    /\ result.spec_id \notin worktrees
    /\ BranchOf(result.spec_id) \notin branches
    /\ worktrees # {}
    /\ branches # {}
    /\ files[result.spec_id] = DoneDir

\* C28: when a confirmed discard_build deletes a branch, it is the branch
\* that the worktree of the resolved spec had checked out just before, the
\* one list_worktrees reported for it.
C28_DeletesReportedBranch ==
    [][(op'.name = "discard_build" /\ op'.confirm /\ branches' # branches)
          => \E d \in FindSpec(op'.spec_id) \cap worktrees :
                branches \ branches' = {wtBranch[d]}]_vars

\* C29: for a spec for which get_spec_status reports status "qa_complete",
\* get_qa_status reports qa_run = true.
C29_QaCompleteMeansQaRun ==
    (/\ op.name = "get_qa_status"
     /\ result.found
     /\ ~PlanRaises(files[result.spec_id])
     /\ SpecStatusResult(result.spec_id).status = "qa_complete")
        => result.qa_run

\* resolve_model_id applied to what resolve_model_id just returned
ResolvedAgain ==
    /\ op.name = "resolve_model_id"
    /\ op'.name = "resolve_model_id"
    /\ op'.model_id = result.value

\* C30, as claimed: under every environment, resolving a resolved identifier
\* returns it unchanged.
C30_ResolveIdempotent ==
    [][ResolvedAgain => result'.value = result.value]_vars

\* an environment whose overrides are not themselves redirected: a primary
\* override that is, in lower case, a haiku name comes with no other fast
\* override, and a fast override that is, in lower case, "opus", "sonnet" or
\* (a primary override being set) a well-known opus or sonnet identifier is
\* the primary override itself
OverridesStable ==
    /\ (Truthy(PrimaryModel) /\ Lower(PrimaryModel[1]) \in {"haiku"} \cup HaikuIds)
          => FastModel = PrimaryModel
    /\ (/\ Truthy(environ.ANTHROPIC_SMALL_FAST_MODEL)
        /\ Lower(environ.ANTHROPIC_SMALL_FAST_MODEL[1]) \in
              {"opus", "sonnet"} \cup (IF Truthy(PrimaryModel) THEN OtherIds ELSE {}))
          => environ.ANTHROPIC_SMALL_FAST_MODEL = PrimaryModel

\* C30, amended: under an environment whose overrides are not themselves
\* redirected, resolving a resolved identifier returns it unchanged.
C30_ResolveIdempotentWhenStable ==
    [][(ResolvedAgain /\ OverridesStable) => result'.value = result.value]_vars

C30_Witness ==
    /\ op.name = "resolve_model_id"
    /\ OverridesStable
    /\ Truthy(PrimaryModel)
    /\ environ.ANTHROPIC_SMALL_FAST_MODEL = Some("kimi-fast")
    /\ op.model_id = "kimi-fast"
    /\ result.value = "kimi-fast"

====
